---- MODULE Spec2Model ----
(***************************************************************************)
(* Model of mirror_github_releases.py: the release mirroring run (main),   *)
(* the state file (load / save), the publish step (git_commit_and_push)    *)
(* and the per-release / per-asset synchronisation.                         *)
(*                                                                         *)
(* The hosting API, git and the file system are the environment: every     *)
(* call that can raise or return failure in the code has both outcomes     *)
(* here, chosen with \E.                                                    *)
(***************************************************************************)
EXTENDS Integers, Sequences, FiniteSets, TLC

(***************************************************************************)
(* Program constants and model bounds                                      *)
(***************************************************************************)
BATCH_SIZE == 10
TIME_DELTA_THRESHOLD == 1

\* Latest server time an upload of the model can be stamped with.
MaxClock == 3
\* Number of successive runs of main in one behaviour.
MaxRuns == 2

(***************************************************************************)
(* File contents.  A file holds a JSON list of tags ("json"), text that    *)
(* is not JSON ("badjson"), bytes that are not UTF-8 ("badbytes"), the     *)
(* beginning of an interrupted write ("partial"), or does not exist.       *)
(***************************************************************************)
Absent == [kind |-> "absent", rec |-> <<>>]
BadJson == [kind |-> "badjson", rec |-> <<>>]
BadBytes == [kind |-> "badbytes", rec |-> <<>>]
Partial == [kind |-> "partial", rec |-> <<>>]
JsonFile(rec) == [kind |-> "json", rec |-> rec]

RECORD_FILE == "synced_versions.json"
TEMP_RECORD_FILE == "synced_versions.json.tmp"

(***************************************************************************)
(* Source repositories, as the API lists them (not sorted), and initial    *)
(* target repositories.                                                    *)
(***************************************************************************)
Asset(n, s, t) == [name |-> n, size |-> s, updated_at |-> t]
Release(tag, c, d, as) == [tag_name |-> tag, created_at |-> c, draft |-> d, assets |-> as]

AllTags == {"v01", "v02", "v03", "v04", "v05", "v06", "v07", "v08", "v09", "v10", "v11"}

\* Two releases with one asset each, listed newest first.
SourceTwo ==
    << Release("v02", 2, FALSE, << Asset("a", 2, 2) >>),
       Release("v01", 1, FALSE, << Asset("a", 1, 1) >>) >>

\* A release with two assets, a draft, and two releases without assets.
SourceMixed ==
    << Release("v03", 3, FALSE, << >>),
       Release("v01", 1, FALSE, << Asset("a", 1, 1), Asset("b", 2, 3) >>),
       Release("v02", 2, TRUE, << Asset("a", 1, 2) >>),
       Release("v04", 4, FALSE, << >>) >>

\* Eleven releases without assets: one more than a batch.
SourceMany ==
    << Release("v01", 1, FALSE, << >>), Release("v02", 2, FALSE, << >>),
       Release("v03", 3, FALSE, << >>), Release("v04", 4, FALSE, << >>),
       Release("v05", 5, FALSE, << >>), Release("v06", 6, FALSE, << >>),
       Release("v07", 7, FALSE, << >>), Release("v08", 8, FALSE, << >>),
       Release("v09", 9, FALSE, << >>), Release("v10", 10, FALSE, << >>),
       Release("v11", 11, FALSE, << >>) >>

Sources == {SourceTwo, SourceMixed, SourceMany}

NoRelease == [exists |-> FALSE, assets |-> << >>]
TargetRelease(as) == [exists |-> TRUE, assets |-> as]

TargetEmpty == [t \in AllTags |-> NoRelease]
\* v01 is mirrored with asset a up to date and asset b older than
\* SourceMixed's; v02 holds asset a with another size than SourceTwo's and
\* a later time.
TargetPartial ==
    [t \in AllTags |->
        IF t = "v01" THEN TargetRelease(<< Asset("a", 1, 1), Asset("b", 2, 1) >>)
        ELSE IF t = "v02" THEN TargetRelease(<< Asset("a", 1, 3) >>)
        ELSE NoRelease]

Targets == {TargetEmpty, TargetPartial}

InitFiles == {Absent, BadJson, BadBytes, JsonFile(<< >>), JsonFile(<< "v01" >>)}

(***************************************************************************)
(* Helpers on sequences                                                    *)
(***************************************************************************)
Range(s) == {s[i] : i \in 1..Len(s)}

IsPrefix(s, t) == Len(s) <= Len(t) /\ \A i \in 1..Len(s) : s[i] = t[i]

RECURSIVE InsertByCreated(_, _)
\* Insert r after every element whose created_at is <= r's (stable).
InsertByCreated(sorted, r) ==
    IF sorted = << >> THEN << r >>
    ELSE IF Head(sorted).created_at <= r.created_at
         THEN << Head(sorted) >> \o InsertByCreated(Tail(sorted), r)
         ELSE << r >> \o sorted

\* (variant: the releases left in the order the API lists them)
SortByCreatedNone(list) == list

RECURSIVE SortByCreated(_)
\* all_releases.sort(key=lambda r: r.created_at)
SortByCreated(list) ==
    IF list = << >> THEN << >>
    ELSE InsertByCreated(SortByCreated(SubSeq(list, 1, Len(list) - 1)), list[Len(list)])

\* (variant: drafts not excluded)
ToSyncWithDrafts(list) == SortByCreated(list)

\* to_sync = [r for r in all_releases if not r.draft]
ToSync(list) == SelectSeq(SortByCreated(list), LAMBDA r : ~r.draft)

(***************************************************************************)
(* Staleness (sync_release_assets, selection of the assets to transfer)    *)
(***************************************************************************)
\* get_asset_info: name -> <<size, updated_at>>; a later asset of the same
\* name overwrites an earlier one, as in a dict comprehension.
get_asset_info(assets) ==
    [n \in {assets[i].name : i \in 1..Len(assets)} |->
        LET last == CHOOSE i \in 1..Len(assets) :
                        /\ assets[i].name = n
                        /\ \A j \in (i + 1)..Len(assets) : assets[j].name # n
        IN  << assets[last].size, assets[last].updated_at >>]

\* (variant: the time test on the absolute difference)
NeedsUploadAbs(asset, target_info) ==
    IF asset.name \notin DOMAIN target_info THEN TRUE
    ELSE IF asset.size # target_info[asset.name][1] THEN TRUE
    ELSE \/ asset.updated_at - target_info[asset.name][2] > TIME_DELTA_THRESHOLD
         \/ target_info[asset.name][2] - asset.updated_at > TIME_DELTA_THRESHOLD

\* (variant: the tolerance compared with >=)
NeedsUploadGe(asset, target_info) ==
    IF asset.name \notin DOMAIN target_info THEN TRUE
    ELSE IF asset.size # target_info[asset.name][1] THEN TRUE
    ELSE asset.updated_at - target_info[asset.name][2] >= TIME_DELTA_THRESHOLD

\* The three tests of lines 123-134, in the code's order.
NeedsUpload(asset, target_info) ==
    IF asset.name \notin DOMAIN target_info THEN TRUE
    ELSE IF asset.size # target_info[asset.name][1] THEN TRUE
    ELSE asset.updated_at - target_info[asset.name][2] > TIME_DELTA_THRESHOLD

ToUpload(source_assets, target_info) ==
    SelectSeq(source_assets, LAMBDA a : NeedsUpload(a, target_info))

(***************************************************************************)
(* State file: load and save                                               *)
(***************************************************************************)
\* initialize_record_file, the file part: create the file with [] if absent.
InitializeRecordFile(d) ==
    IF d[RECORD_FILE].kind = "absent"
    THEN [d EXCEPT ![RECORD_FILE] = JsonFile(<< >>)]
    ELSE d

\* load_synced_versions after initialize_record_file: json.load returns the
\* list, a JSONDecodeError resets the file to [], and bytes that are not
\* UTF-8 raise UnicodeDecodeError, which the except clause does not catch.
LoadSyncedVersions(d) ==
    LET c == d[RECORD_FILE]
    IN  CASE c.kind = "json" ->
               [raised |-> FALSE, value |-> c.rec, disk |-> d]
          [] c.kind \in {"badjson", "partial"} ->
               [raised |-> FALSE, value |-> << >>,
                disk |-> [d EXCEPT ![RECORD_FILE] = JsonFile(<< >>)]]
          [] OTHER ->
               [raised |-> TRUE, value |-> << >>, disk |-> d]

\* (variant: the record written in place)
SaveWritePathDirect == RECORD_FILE
\* The path save_synced_versions opens for writing (line 44-45).
SaveWritePath == TEMP_RECORD_FILE

\* open(path, "w") + json.dump completed.
WriteRecord(d, rec) == [d EXCEPT ![SaveWritePath] = JsonFile(rec)]
\* The same write interrupted before json.dump completed.
InterruptedWrite(d) == [d EXCEPT ![SaveWritePath] = Partial]
\* (variant: the temporary file never moved over RECORD_FILE)
ReplaceSkipped(d) == d
\* os.replace(temp_file, RECORD_FILE)
Replace(d) == [d EXCEPT ![RECORD_FILE] = d[TEMP_RECORD_FILE],
                        ![TEMP_RECORD_FILE] = Absent]

(***************************************************************************)
(* Publish: git_commit_and_push                                            *)
(***************************************************************************)
\* git status --porcelain RECORD_FILE prints nothing.
StatusClean(wt, ix, hd) == wt = ix /\ ix = hd

\* The outcomes of one call: return value and the git state it leaves.
\* A failing git config or git add changes nothing; git commit fails when
\* there is nothing to commit or for another reason; git push may fail
\* after the commit was made.
PushOutcomes(wt, rm) ==
    { [ret |-> FALSE, index |-> wt, head |-> wt, remote |-> rm],
      [ret |-> TRUE, index |-> wt, head |-> wt, remote |-> wt] }

git_commit_and_push(wt, ix, hd, rm) ==
    IF StatusClean(wt, ix, hd)
    THEN { [ret |-> TRUE, index |-> ix, head |-> hd, remote |-> rm] }
    ELSE { [ret |-> FALSE, index |-> ix, head |-> hd, remote |-> rm],
           [ret |-> FALSE, index |-> wt, head |-> hd, remote |-> rm] }
         \cup (IF wt # hd THEN PushOutcomes(wt, rm) ELSE {})

(***************************************************************************)
(* State                                                                   *)
(***************************************************************************)
VARIABLES
    source,            \* the source repository's releases, as listed
    target,            \* the target repository: tag -> release
    disk,              \* RECORD_FILE and its temporary file
    index, head, remote,   \* git: staged, committed and pushed RECORD_FILE
    tempFiles,         \* local temporary asset files that exist
    run,               \* number of the current run of main
    pc,                \* position of main
    synced_versions, current_batch, last_saved_count,   \* main's locals
    to_sync, idx,      \* the loop of main: list and position (1-based)
    inTry,             \* sync_single_release: TRUE in the try block
    to_upload, target_info, k,   \* sync_release_assets' locals
    publishRet,        \* return value of the last git_commit_and_push
    log,               \* what the current run has done so far
    prev               \* how the previous run ended

vars == << source, target, disk, index, head, remote, tempFiles, run, pc,
           synced_versions, current_batch, last_saved_count, to_sync, idx,
           inTry, to_upload, target_info, k, publishRet, log, prev >>

gitVars == << index, head, remote >>
assetVars == << inTry, to_upload, target_info, k >>
mainVars == << synced_versions, current_batch, last_saved_count, to_sync, idx >>

file == disk[RECORD_FILE]

EmptyLog ==
    [ loaded |-> FALSE,        \* load_synced_versions has returned
      handled |-> {},          \* tags sync_single_release was called for
      found |-> {},            \* tags get_release returned a release for
      createTried |-> {},      \* tags create_git_release was called for
      created |-> {},          \* tags create_git_release created
      selected |-> {},         \* <<tag, name>> put in to_upload
      downloads |-> {},        \* <<tag, name>> download_asset was called for
      deletes |-> {},          \* <<tag, name>> delete_asset was called for
      uploads |-> {},          \* <<tag, name>> upload_asset was called for
      failed |-> {},           \* tags with a failed asset transfer
      releaseErrors |-> {},    \* tags whose sync_single_release raised
      appended |-> << >>,      \* tags appended to synced_versions
      exc |-> FALSE,           \* main's except clause was entered
      publishTried |-> -1,     \* len(synced_versions) at the last publish
      publishOk |-> -1,        \* the same at the last publish returning True
      returned |-> {},         \* tags sync_single_release returned True for
      saveStart |-> Absent,    \* RECORD_FILE when the last save began
      killedAt |-> "" ]        \* position at which the run was killed

NoPrev == [ended |-> "none", clean |-> FALSE, file |-> Absent,
           complete |-> {}, pending |-> {}, transferred |-> FALSE]

RunningPcs == {"start", "loop", "assets", "returned", "batch_write",
               "batch_replace", "batch_publish", "final_write",
               "final_replace", "final_publish"}
WritePcs == {"batch_write", "final_write"}
EndPcs == {"done", "raised", "killed"}

Init ==
    /\ source \in Sources
    /\ target \in Targets
    /\ \E f \in InitFiles :
         /\ disk = [p \in {RECORD_FILE, TEMP_RECORD_FILE} |->
                        IF p = RECORD_FILE THEN f ELSE Absent]
         /\ index = f /\ head = f /\ remote = f
    /\ tempFiles = {}
    /\ run = 1
    /\ pc = "start"
    /\ synced_versions = << >>
    /\ current_batch = 0
    /\ last_saved_count = 0
    /\ to_sync = << >>
    /\ idx = 1
    /\ inTry = FALSE
    /\ to_upload = << >>
    /\ target_info = get_asset_info(<< >>)
    /\ k = 1
    /\ publishRet = FALSE
    /\ log = EmptyLog
    /\ prev = NoPrev

\* (variant: no flush when the loop ends)
FinallyPcNoFlush(versions, saved) == "done"

\* The finally clause of main (lines 254-258): where the run goes when the
\* loop has ended, normally or by an exception.
FinallyPc(versions, saved) ==
    IF Len(versions) > saved THEN "final_write" ELSE "done"

(***************************************************************************)
(* main, lines 219-233: load the record, order the releases                *)
(***************************************************************************)
Load ==
    /\ pc = "start"
    /\ LET d1 == InitializeRecordFile(disk)
           r == LoadSyncedVersions(d1)
       IN  /\ disk' = r.disk
           \* git add RECORD_FILE: done, or CalledProcessError (ignored)
           /\ index' \in {d1[RECORD_FILE], index}
           /\ IF r.raised
              THEN /\ pc' = "raised"
                   /\ UNCHANGED << mainVars, log >>
              ELSE /\ pc' = "loop"
                   /\ synced_versions' = r.value
                   /\ current_batch' = 0
                   /\ last_saved_count' = Len(r.value)
                   /\ to_sync' = ToSync(source)
                   /\ idx' = 1
                   /\ log' = [log EXCEPT !.loaded = TRUE,
                                         !.publishOk = Len(r.value)]
    /\ UNCHANGED << source, target, head, remote, tempFiles, run, assetVars,
                    publishRet, prev >>

(***************************************************************************)
(* sync_single_release (lines 172-194) up to the selection of the assets   *)
(***************************************************************************)
SourceTags(list) == {list[i].tag_name : i \in 1..Len(list)}

\* Server times an upload can be stamped with: not before the source's
\* assets were last modified.
RECURSIVE LatestUpdate(_)
LatestUpdate(assets) ==
    IF assets = << >> THEN 0
    ELSE LET m == LatestUpdate(Tail(assets))
         IN  IF Head(assets).updated_at > m THEN Head(assets).updated_at ELSE m

RECURSIVE LatestSourceTime(_)
LatestSourceTime(list) ==
    IF list = << >> THEN 0
    ELSE LET m == LatestSourceTime(Tail(list))
             h == LatestUpdate(Head(list).assets)
         IN  IF h > m THEN h ELSE m

UploadTimes(list) == {t \in 0..MaxClock : t >= LatestSourceTime(list)}

\* sync_release_assets, lines 113-139: list both sides, select, and return
\* True at once when nothing is selected.
EnterAssets(rel, targetAssets, tryBlock, logNow) ==
    LET info == get_asset_info(targetAssets)
        sel == ToUpload(rel.assets, info)
    IN  /\ target_info' = info
        /\ to_upload' = sel
        /\ k' = 1
        /\ inTry' = tryBlock
        /\ pc' = IF sel = << >> THEN "returned" ELSE "assets"
        /\ log' = [logNow EXCEPT
                     !.selected = @ \cup {<< rel.tag_name, sel[i].name >> : i \in 1..Len(sel)},
                     !.returned = IF sel = << >> THEN @ \cup {rel.tag_name} ELSE @]

\* An exception leaves the for loop of main: except clause, then finally.
LoopRaised(tag, logNow) ==
    /\ pc' = FinallyPc(synced_versions, last_saved_count)
    /\ log' = [logNow EXCEPT !.exc = TRUE, !.releaseErrors = @ \cup {tag}]

\* create_git_release is refused for a tag that has a release.
CreateAccepted(tgt, tag) == ~tgt[tag].exists

SyncSingleRelease ==
    /\ pc = "loop"
    /\ idx <= Len(to_sync)
    /\ LET rel == to_sync[idx]
           tag == rel.tag_name
           log1 == [log EXCEPT !.handled = @ \cup {tag}]
       IN  \E lookup \in {"ok", "error"}, create \in {"ok", "error"} :
             IF target[tag].exists /\ lookup = "ok"
             THEN \* get_release found the release: try block
                  /\ create = "ok"
                  /\ EnterAssets(rel, target[tag].assets, TRUE,
                                 [log1 EXCEPT !.found = @ \cup {tag}])
                  /\ UNCHANGED target
             ELSE \* get_release raised GithubException: except block
                  LET log2 == [log1 EXCEPT !.createTried = @ \cup {tag}]
                  IN  IF CreateAccepted(target, tag) /\ create = "ok"
                      THEN /\ target' = [target EXCEPT ![tag] = TargetRelease(<< >>)]
                           /\ EnterAssets(rel, << >>, FALSE,
                                          [log2 EXCEPT !.created = @ \cup {tag}])
                      ELSE /\ LoopRaised(tag, log2)
                           /\ UNCHANGED << target, assetVars >>
    /\ UNCHANGED << source, disk, gitVars, tempFiles, run, mainVars,
                    publishRet, prev >>

(***************************************************************************)
(* sync_release_assets, lines 142-169: one iteration of the transfer loop  *)
(***************************************************************************)
\* Lines 151-156: delete the first target asset of that name.
RECURSIVE DeleteOld(_, _)
DeleteOld(assets, name) ==
    IF assets = << >> THEN << >>
    ELSE IF Head(assets).name = name THEN Tail(assets)
         ELSE << Head(assets) >> \o DeleteOld(Tail(assets), name)

\* The platform refuses an upload under a name the release already holds.
UploadAccepted(assets, name) == \A i \in 1..Len(assets) : assets[i].name # name

\* download_asset lines 103-107: the file is removed if it exists.
DownloadCleanup(files, temp) == files \ {temp}
\* (variant: no removal in the finally clause)
FinallyCleanupNone(files, temp) == files
\* The finally clause, lines 165-167.
FinallyCleanup(files, temp) == files \ {temp}

\* (variant: the old target asset deleted before the download)
AssetsAtDownloadDeleted(assets, name) == DeleteOld(assets, name)
\* Lines 143-148: the target's assets when download_asset returns; nothing
\* is deleted before the download.
AssetsAtDownload(assets, name) == assets

\* What the loop does after an asset whose download failed (line 148).
AfterDownloadFailure(pos) == pos + 1

\* Return value of sync_release_assets when the loop is over (line 169).
AssetsResult(anyFailed) == TRUE

TransferAsset ==
    /\ pc = "assets"
    /\ LET rel == to_sync[idx]
           tag == rel.tag_name
           asset == to_upload[k]
           name == asset.name
           temp == << tag, name >>
           old == name \in DOMAIN target_info
           log1 == [log EXCEPT !.downloads = @ \cup {temp}]
           next(pos, lg) ==
               /\ k' = pos
               /\ IF pos > Len(to_upload)
                  THEN /\ pc' = IF AssetsResult(tag \in lg.failed) THEN "returned" ELSE "loop"
                       /\ idx' = IF AssetsResult(tag \in lg.failed) THEN idx ELSE idx + 1
                       /\ log' = [lg EXCEPT !.returned =
                                     IF AssetsResult(tag \in lg.failed)
                                     THEN @ \cup {tag} ELSE @]
                  ELSE /\ pc' = "assets"
                       /\ idx' = idx
                       /\ log' = lg
           raise(lg) ==
               \* in the try block the except clause calls create_git_release
               \* for the existing release, which raises again
               /\ LoopRaised(tag, [lg EXCEPT
                      !.failed = @ \cup {tag},
                      !.createTried = IF inTry THEN @ \cup {tag} ELSE @])
               /\ UNCHANGED << k, idx >>
       IN  \E outcome \in {"download_failed", "delete_failed", "upload_failed", "ok"},
              t \in UploadTimes(source) :
             CASE outcome = "download_failed" ->
                    \* `continue` leaves the try statement through finally
                    /\ tempFiles' = FinallyCleanup(
                                        DownloadCleanup(tempFiles \cup {temp}, temp), temp)
                    /\ next(AfterDownloadFailure(k), [log1 EXCEPT !.failed = @ \cup {tag}])
                    /\ target' = [target EXCEPT ![tag].assets =
                                     AssetsAtDownload(target[tag].assets, name)]
               [] outcome = "delete_failed" ->
                    /\ old
                    /\ tempFiles' = FinallyCleanup(tempFiles \cup {temp}, temp)
                    /\ raise([log1 EXCEPT !.deletes = @ \cup {temp}])
                    /\ target' = [target EXCEPT ![tag].assets =
                                     AssetsAtDownload(target[tag].assets, name)]
               [] OTHER ->
                    LET had == AssetsAtDownload(target[tag].assets, name)
                        kept == IF old THEN DeleteOld(had, name) ELSE had
                        log2 == [log1 EXCEPT
                                   !.deletes = IF old THEN @ \cup {temp} ELSE @,
                                   !.uploads = @ \cup {temp}]
                    IN  /\ tempFiles' = FinallyCleanup(tempFiles \cup {temp}, temp)
                        /\ IF outcome = "ok" /\ UploadAccepted(kept, name)
                           THEN /\ target' = [target EXCEPT ![tag].assets =
                                       Append(kept, Asset(name, asset.size, t))]
                                /\ next(k + 1, log2)
                           ELSE /\ target' = [target EXCEPT ![tag].assets = kept]
                                /\ raise(log2)
    /\ UNCHANGED << source, disk, gitVars, run, synced_versions, current_batch,
                    last_saved_count, to_sync, inTry, to_upload, target_info,
                    publishRet, prev >>

(***************************************************************************)
(* main, lines 238-250: record the release, checkpoint every BATCH_SIZE    *)
(***************************************************************************)
\* (variant: the tag appended without the membership test)
IsNewTagAlways(tag, versions) == TRUE

\* Line 240: the tag is appended unless the record holds it.
IsNewTag(tag, versions) == tag \notin Range(versions)

\* (variant: the batch test with >)
BatchFullStrict(batch) == batch > BATCH_SIZE

\* Line 245: the batch is full.
BatchFull(batch) == batch >= BATCH_SIZE

RecordRelease ==
    /\ pc = "returned"
    /\ LET tag == to_sync[idx].tag_name
           new == IsNewTag(tag, synced_versions)
           batch == IF new THEN current_batch + 1 ELSE current_batch
       IN  /\ synced_versions' = IF new THEN Append(synced_versions, tag)
                                 ELSE synced_versions
           /\ current_batch' = batch
           /\ log' = [log EXCEPT !.appended = IF new THEN Append(@, tag) ELSE @]
           /\ IF BatchFull(batch)
              THEN pc' = "batch_write" /\ idx' = idx
              ELSE pc' = "loop" /\ idx' = idx + 1
    /\ UNCHANGED << source, target, disk, gitVars, tempFiles, run,
                    last_saved_count, to_sync, assetVars, publishRet, prev >>

\* save_synced_versions, lines 44-46: write the temporary file.
SaveWrite ==
    /\ pc \in WritePcs
    /\ disk' = WriteRecord(disk, synced_versions)
    /\ pc' = IF pc = "batch_write" THEN "batch_replace" ELSE "final_replace"
    /\ log' = [log EXCEPT !.saveStart = file]
    /\ UNCHANGED << source, target, gitVars, tempFiles, run, mainVars,
                    assetVars, publishRet, prev >>

\* save_synced_versions, line 47: os.replace.
SaveReplace ==
    /\ pc \in {"batch_replace", "final_replace"}
    /\ disk' = Replace(disk)
    /\ pc' = IF pc = "batch_replace" THEN "batch_publish" ELSE "final_publish"
    /\ UNCHANGED << source, target, gitVars, tempFiles, run, mainVars,
                    assetVars, publishRet, log, prev >>

\* Lines 248-250: the counters after the batch's publish.
SavedCountAfter(ret, versions, saved) == IF ret THEN Len(versions) ELSE saved
BatchAfter(ret, batch) == IF ret THEN 0 ELSE batch

\* (variant: a failed publish ends the run)
PcAfterBatchPublishAbort(ret) == IF ret THEN "loop" ELSE "done"
\* Lines 248-250: whatever the publish returned, the loop goes on.
PcAfterBatchPublish(ret) == "loop"

Published(o) ==
    /\ index' = o.index
    /\ head' = o.head
    /\ remote' = o.remote
    /\ publishRet' = o.ret
    /\ log' = [log EXCEPT
                 !.publishTried = Len(synced_versions),
                 !.publishOk = IF o.ret THEN Len(synced_versions) ELSE @]

BatchPublish ==
    /\ pc = "batch_publish"
    /\ \E o \in git_commit_and_push(file, index, head, remote) :
         /\ Published(o)
         /\ last_saved_count' = SavedCountAfter(o.ret, synced_versions, last_saved_count)
         /\ current_batch' = BatchAfter(o.ret, current_batch)
         /\ pc' = PcAfterBatchPublish(o.ret)
    /\ idx' = idx + 1
    /\ UNCHANGED << source, target, disk, tempFiles, run, synced_versions,
                    to_sync, assetVars, prev >>

\* Line 258: the publish of the finally clause; its result is not used.
FinalPublish ==
    /\ pc = "final_publish"
    /\ \E o \in git_commit_and_push(file, index, head, remote) : Published(o)
    /\ pc' = "done"
    /\ UNCHANGED << source, target, disk, tempFiles, run, mainVars,
                    assetVars, prev >>

\* The for loop is exhausted: finally clause, then line 260.
LoopEnd ==
    /\ pc = "loop"
    /\ idx > Len(to_sync)
    /\ pc' = FinallyPc(synced_versions, last_saved_count)
    /\ UNCHANGED << source, target, disk, gitVars, tempFiles, run, mainVars,
                    assetVars, publishRet, log, prev >>

(***************************************************************************)
(* Termination of the process from outside, and the next run               *)
(***************************************************************************)
Kill ==
    /\ pc \in RunningPcs
    /\ pc' = "killed"
    /\ disk' \in IF pc \in WritePcs THEN {disk, InterruptedWrite(disk)} ELSE {disk}
    /\ log' = [log EXCEPT !.killedAt = pc,
                          !.saveStart = IF pc \in WritePcs THEN file ELSE @]
    /\ UNCHANGED << source, target, gitVars, tempFiles, run, mainVars,
                    assetVars, publishRet, prev >>

\* The releases of the source the target mirrors completely.
UpToDate(rel, tgt) ==
    /\ tgt[rel.tag_name].exists
    /\ ToUpload(rel.assets, get_asset_info(tgt[rel.tag_name].assets)) = << >>

Summary ==
    [ ended |-> pc,
      clean |-> pc = "done" /\ log.failed = {} /\ ~log.exc,
      file |-> file,
      complete |-> {to_sync[i].tag_name : i \in
                      {j \in 1..Len(to_sync) :
                          /\ to_sync[j].tag_name \in log.returned
                          /\ UpToDate(to_sync[j], target)}},
      pending |-> SourceTags(to_sync) \ log.handled,
      transferred |-> log.uploads # {} ]

NextRun ==
    /\ pc \in EndPcs
    /\ run < MaxRuns
    /\ run' = run + 1
    /\ pc' = "start"
    /\ prev' = Summary
    /\ log' = EmptyLog
    /\ synced_versions' = << >>
    /\ current_batch' = 0
    /\ last_saved_count' = 0
    /\ to_sync' = << >>
    /\ idx' = 1
    /\ inTry' = FALSE
    /\ to_upload' = << >>
    /\ target_info' = get_asset_info(<< >>)
    /\ k' = 1
    /\ publishRet' = FALSE
    /\ UNCHANGED << source, target, disk, gitVars, tempFiles >>

Next ==
    \/ Load
    \/ SyncSingleRelease
    \/ TransferAsset
    \/ RecordRelease
    \/ SaveWrite
    \/ SaveReplace
    \/ BatchPublish
    \/ FinalPublish
    \/ LoopEnd
    \/ Kill
    \/ NextRun

Spec == Init /\ [][Next]_vars

(***************************************************************************)
(* Properties                                                              *)
(***************************************************************************)
SavePcs == {"batch_write", "batch_replace", "final_write", "final_replace"}

\* The release whose assets are being transferred, also when the run was
\* killed in the middle of it.
InProgress(tag) ==
    /\ \/ pc = "assets"
       \/ pc = "killed" /\ log.killedAt = "assets"
    /\ to_sync[idx].tag_name = tag

\* C1: a tag appended to synced_versions in a run belongs to a release none
\* of whose asset transfers failed in that run.
C1_AppendedOnlyIfAllTransferred ==
    \A i \in 1..Len(log.appended) : log.appended[i] \notin log.failed

\* C2: once the handling of a release with a failed asset transfer is over,
\* every asset that was selected for it has been attempted.
C2_SiblingsAttempted ==
    \A s \in log.selected :
        (s[1] \in log.failed /\ ~InProgress(s[1])) => s \in log.downloads

\* C3: when a run ends, a release whose reconciliation raised is not in the
\* record through this run, and every later release of the list was handled.
C3_ReleaseFailureContained ==
    pc = "done" =>
        \A i \in 1..Len(to_sync) :
            to_sync[i].tag_name \in log.releaseErrors =>
                /\ to_sync[i].tag_name \notin Range(log.appended)
                /\ \A j \in (i + 1)..Len(to_sync) : to_sync[j].tag_name \in log.handled

\* C4: a run whose loop was interrupted by an exception does not end
\* normally: after the finalization the error is raised again.
C4_ReraisedAfterFinalization ==
    log.exc => pc # "done"

\* C5: when main ends, RECORD_FILE holds exactly synced_versions, and if tags
\* were appended since the last publish that returned True, a publish was
\* attempted for the record as it is.
C5_FlushedAtTermination ==
    pc = "done" =>
        /\ file = JsonFile(synced_versions)
        /\ \A i \in 1..Len(log.appended) : log.appended[i] \in Range(file.rec)
        /\ Len(synced_versions) > log.publishOk =>
               log.publishTried = Len(synced_versions)

\* An interrupted run that appended tags and whose last publish failed.
C5_Witness ==
    /\ pc = "done"
    /\ log.exc
    /\ log.appended # << >>
    /\ log.publishTried = Len(synced_versions)
    /\ ~publishRet

\* C6: a publish that returns True leaves the remote holding RECORD_FILE as
\* last saved.
C6_PublishTrueMeansPushed ==
    [][ ( /\ pc \in {"batch_publish", "final_publish"}
          /\ pc' \in {"loop", "done"}
          /\ publishRet' )
        => remote' = file' ]_vars

\* C7: RECORD_FILE is never partially written, and a run killed inside save
\* leaves it as it was when save began: a valid record that load returns.
C7_SaveAtomic ==
    /\ file.kind # "partial"
    /\ (pc = "killed" /\ log.killedAt \in SavePcs) =>
           LET r == LoadSyncedVersions(InitializeRecordFile(disk))
           IN  /\ file = log.saveStart
               /\ file.kind = "json"
               /\ ~r.raised
               /\ r.value = log.saveStart.rec

\* Killed between the write of the temporary file and os.replace, the
\* temporary file holding a longer record than RECORD_FILE.
C7_Witness ==
    /\ pc = "killed"
    /\ log.killedAt \in {"batch_replace", "final_replace"}
    /\ disk[TEMP_RECORD_FILE].kind = "json"
    /\ disk[TEMP_RECORD_FILE] # file

\* C8: load on an absent or invalid RECORD_FILE returns the empty record and
\* leaves RECORD_FILE holding the empty list.
C8_LoadNeverFails ==
    [][ (pc = "start" /\ file.kind # "json" /\ pc' # "killed")
        => /\ pc' = "loop"
           /\ synced_versions' = << >>
           /\ file' = JsonFile(<< >>) ]_vars

\* C9: a run that follows a run without failure creates no release (and
\* calls create_git_release only after an API error), downloads, deletes and
\* uploads no asset, and leaves RECORD_FILE as the first run left it.
C9_Idempotent ==
    (run > 1 /\ prev.clean) =>
        /\ log.created = {}
        /\ log.createTried \subseteq log.releaseErrors
        /\ log.downloads = {}
        /\ log.deletes = {}
        /\ log.uploads = {}
        /\ file = prev.file

\* The second run is over, after a first run that uploaded assets.
C9_Witness ==
    /\ run > 1
    /\ prev.clean
    /\ prev.transferred
    /\ pc = "done"
    /\ Cardinality(log.handled) >= 2

\* C10: after a run killed when some releases were completely mirrored and
\* others not yet handled, the next run creates none of the former again,
\* uploads none of their assets, and handles every one of the latter.
C10_Resumable ==
    (run > 1 /\ prev.ended = "killed" /\ pc = "done") =>
        \A r1 \in prev.complete, r2 \in prev.pending :
            /\ r1 \notin log.created
            /\ \A u \in log.uploads : u[1] # r1
            /\ r2 \in log.handled

(***************************************************************************)
(* Staleness over all small inputs: one release with one source asset "a"  *)
(* of any size and time, against a target release holding any list of      *)
(* assets named "a" and "b".                                               *)
(***************************************************************************)
StaleSources ==
    { << Release("v01", 1, FALSE, << Asset("a", sz, t) >>) >> :
        sz \in 1..2, t \in 0..MaxClock }

StaleTargetAssets ==
    LET as == {Asset("a", sz, t) : sz \in 1..2, t \in 0..MaxClock}
        b == Asset("b", 1, 0)
    IN  {<< >>, << b >>} \cup {<< a >> : a \in as}
        \cup {<< a, b >> : a \in as} \cup {<< b, a >> : a \in as}

InitStale ==
    /\ source \in StaleSources
    /\ \E as \in StaleTargetAssets :
         target = [t \in AllTags |-> IF t = "v01" THEN TargetRelease(as) ELSE NoRelease]
    /\ disk = [p \in {RECORD_FILE, TEMP_RECORD_FILE} |-> Absent]
    /\ index = Absent /\ head = Absent /\ remote = Absent
    /\ tempFiles = {}
    /\ run = 1
    /\ pc = "start"
    /\ synced_versions = << >>
    /\ current_batch = 0
    /\ last_saved_count = 0
    /\ to_sync = << >>
    /\ idx = 1
    /\ inTry = FALSE
    /\ to_upload = << >>
    /\ target_info = get_asset_info(<< >>)
    /\ k = 1
    /\ publishRet = FALSE
    /\ log = EmptyLog
    /\ prev = NoPrev

NextStale ==
    \/ Load
    \/ SyncSingleRelease
    \/ TransferAsset
    \/ RecordRelease
    \/ LoopEnd
    \/ SaveWrite
    \/ SaveReplace
    \/ FinalPublish

SpecStale == InitStale /\ [][NextStale]_vars

\* The verdict as the specification words it, on the target's asset list.
StaleBySpec(a, assets) ==
    \/ ~ \E i \in 1..Len(assets) : assets[i].name = a.name
    \/ \E i \in 1..Len(assets) :
         /\ assets[i].name = a.name
         /\ \/ assets[i].size # a.size
            \/ /\ assets[i].size = a.size
               /\ a.updated_at - assets[i].updated_at > 1

\* C11: when sync_release_assets selects, a source asset is selected if and
\* only if the target has no asset of its name, or the sizes differ, or the
\* sizes are equal and the source is newer by more than 1; and only selected
\* assets are ever downloaded, deleted or uploaded.
C11_StalenessVerdict ==
    [][ /\ (pc = "loop" /\ pc' \in {"assets", "returned"}) =>
             LET rel == to_sync[idx]
             IN  /\ \A i \in 1..Len(rel.assets) :
                       (rel.assets[i] \in Range(to_upload'))
                           <=> StaleBySpec(rel.assets[i], target'[rel.tag_name].assets)
                 /\ log'.selected = log.selected \cup
                        {<< rel.tag_name, a.name >> : a \in Range(to_upload')}
        /\ (log'.downloads \cup log'.deletes \cup log'.uploads) \subseteq log'.selected
      ]_vars

\* An asset whose size differs is selected although the target's is newer.
C11_Witness ==
    /\ pc = "assets"
    /\ k = 1
    /\ inTry
    /\ to_upload[1].name \in DOMAIN target_info
    /\ to_upload[1].size # target_info[to_upload[1].name][1]
    /\ target_info[to_upload[1].name][2] > to_upload[1].updated_at

\* Tags appended since the last save + publish of the run (since the load,
\* if there was none).
SinceCheckpoint ==
    IF log.publishTried >= 0
    THEN Len(synced_versions) - log.publishTried
    ELSE Len(log.appended)

\* C12: when the next release is about to be reconciled or is being
\* reconciled, fewer than BATCH_SIZE tags were appended since the last
\* save + publish, and that save wrote the full record of that moment.
C12_BatchCheckpoint ==
    (log.loaded /\ pc \in {"loop", "assets", "returned"}) =>
        /\ SinceCheckpoint < BATCH_SIZE
        /\ log.publishTried >= 0 =>
               /\ file.kind = "json"
               /\ Len(file.rec) >= log.publishTried
               /\ IsPrefix(file.rec, synced_versions)

\* The tenth new tag was appended, saved and published, and a release is
\* still to be reconciled.
C12_Witness ==
    /\ pc = "loop"
    /\ idx <= Len(to_sync)
    /\ Len(log.appended) = BATCH_SIZE
    /\ log.publishTried = BATCH_SIZE
    /\ file = JsonFile(synced_versions)

CreatedAt(tag) ==
    LET i == CHOOSE j \in 1..Len(source) : source[j].tag_name = tag
    IN  source[i].created_at

\* C13: a non-draft release is handled only after every non-draft release
\* created before it, tags are appended in ascending creation order, and a
\* run that started from an empty record and ended without exception leaves
\* RECORD_FILE listing the tags oldest first.
C13_OldestFirst ==
    /\ \A i, j \in 1..Len(source) :
         ( /\ ~source[i].draft /\ ~source[j].draft
           /\ source[i].created_at < source[j].created_at
           /\ source[j].tag_name \in log.handled )
         => source[i].tag_name \in log.handled
    /\ \A i, j \in 1..Len(log.appended) :
         i < j => CreatedAt(log.appended[i]) < CreatedAt(log.appended[j])
    /\ (pc = "done" /\ ~log.exc /\ Len(synced_versions) = Len(log.appended)) =>
         /\ file.rec = log.appended
         /\ Len(file.rec) = Cardinality({i \in 1..Len(source) : ~source[i].draft})

\* The scenario of two releases listed newest first, target empty.
C13_Witness ==
    /\ pc = "done"
    /\ source = SourceTwo
    /\ log.created = {"v01", "v02"}
    /\ log.uploads = {<< "v01", "a" >>, << "v02", "a" >>}
    /\ file = JsonFile(<< "v01", "v02" >>)

DraftTags == {source[i].tag_name : i \in {j \in 1..Len(source) : source[j].draft}}

\* C14: for a draft of the source, no target release is looked up or
\* created, no asset is selected or transferred, and its tag is not appended.
C14_DraftsExcluded ==
    \A d \in DraftTags :
        /\ d \notin log.handled \cup log.found \cup log.createTried \cup log.created
        /\ \A s \in log.selected \cup log.downloads \cup log.deletes \cup log.uploads :
             s[1] # d
        /\ d \notin Range(log.appended)

\* A run over a source with a draft handled every other release.
C14_Witness ==
    /\ pc = "done"
    /\ DraftTags # {}
    /\ ~log.exc
    /\ log.handled = SourceTags(source) \ DraftTags
    /\ log.uploads # {}

\* C15: the temporary file of an asset whose transfer has ended does not
\* exist, and no temporary asset file exists outside the transfer loop.
C15_NoTempFileLeft ==
    /\ \A s \in log.downloads : s \notin tempFiles
    /\ pc # "assets" => tempFiles = {}

\* A transfer ended by an exception after its download, and the loop with it.
C15_Witness ==
    /\ pc = "done"
    /\ log.exc
    /\ log.uploads # {}
    /\ log.failed # {}
    /\ tempFiles = {}

\* C16: create_git_release is never called for a tag whose target release
\* get_release found, on any path of sync_single_release.
C16_CreateOnlyIfAbsent ==
    \A t \in log.createTried : t \notin log.found

NoDup(seq) == \A i, j \in 1..Len(seq) : i # j => seq[i] # seq[j]

\* The record as load_synced_versions returned it.
Loaded == SubSeq(synced_versions, 1, Len(synced_versions) - Len(log.appended))

\* C17: if the loaded record has no duplicate tag, neither synced_versions
\* nor RECORD_FILE nor its temporary file ever has one, and within a run
\* each value of synced_versions is a prefix of the next.
C17_RecordAppendOnly ==
    /\ [](NoDup(Loaded) =>
            /\ NoDup(synced_versions)
            /\ \A p \in DOMAIN disk : disk[p].kind = "json" => NoDup(disk[p].rec))
    /\ [][run' = run => IsPrefix(synced_versions, synced_versions')]_vars

\* A release whose tag the loaded record held was handled again, and other
\* tags were appended and saved.
C17_Witness ==
    /\ pc = "done"
    /\ log.appended # << >>
    /\ \E t \in log.returned : t \in Range(Loaded)
    /\ file = JsonFile(synced_versions)

\* C18: a publish that returns False changes neither synced_versions nor the
\* files, the batch's publish is followed by the next release and the final
\* one by the end of main; a run without exception handles every release.
C18_PublishFailureNonFatal ==
    /\ [][ ( /\ pc \in {"batch_publish", "final_publish"}
             /\ pc' # "killed"
             /\ ~publishRet' )
           => /\ synced_versions' = synced_versions
              /\ disk' = disk
              /\ pc = "batch_publish" => (pc' = "loop" /\ idx' = idx + 1)
              /\ pc = "final_publish" => pc' = "done" ]_vars
    /\ []((pc = "done" /\ ~log.exc) => SourceTags(to_sync) \subseteq log.handled)

\* More than a batch of tags was appended and no publish returned True: the
\* batch's publish failed and the run went on to the end.
C18_Witness ==
    /\ pc = "done"
    /\ ~log.exc
    /\ Len(log.appended) > BATCH_SIZE
    /\ log.publishOk < BATCH_SIZE
    /\ file = JsonFile(synced_versions)

\* Tags of synced_versions that RECORD_FILE does not hold.
Unsaved == Len(synced_versions) - Len(file.rec)

\* C19 as stated: at every moment of a run fewer than BATCH_SIZE tags are
\* unsaved.
C19_UnsavedBelowBatchAlways ==
    (log.loaded /\ pc \in RunningPcs \cup {"killed"}) => Unsaved < BATCH_SIZE

\* C19, amended: RECORD_FILE always holds a prefix of synced_versions;
\* between two releases fewer than BATCH_SIZE tags are unsaved, and at any
\* moment at most BATCH_SIZE, that many only inside the batch's save.
C19_UnsavedBounded ==
    log.loaded =>
        /\ file.kind = "json"
        /\ IsPrefix(file.rec, synced_versions)
        /\ pc = "loop" => Unsaved < BATCH_SIZE
        /\ Unsaved <= BATCH_SIZE
        /\ Unsaved = BATCH_SIZE =>
               \/ pc \in {"batch_write", "batch_replace"}
               \/ pc = "killed" /\ log.killedAt \in {"batch_write", "batch_replace"}

\* Between two releases, after a batch publish that failed.
C19_Witness ==
    /\ pc = "loop"
    /\ idx <= Len(to_sync)
    /\ log.publishTried >= BATCH_SIZE
    /\ log.publishOk < BATCH_SIZE
    /\ Unsaved = 0

NoDupNames ==
    \A t \in AllTags : \A i, j \in 1..Len(target[t].assets) :
        i # j => target[t].assets[i].name # target[t].assets[j].name

\* C20: a transfer whose download failed leaves the target as it was; a
\* transfer that uploads has deleted the old asset of that name first, the
\* release then holds one asset of that name, with the source's size; no
\* release ever holds two assets of one name.
C20_ReplaceBeforeUpload ==
    /\ []NoDupNames
    /\ [][ (pc = "assets" /\ pc' # "killed") =>
             LET tag == to_sync[idx].tag_name
                 asset == to_upload[k]
                 temp == << tag, asset.name >>
                 named == {i \in 1..Len(target'[tag].assets) :
                              target'[tag].assets[i].name = asset.name}
             IN  /\ temp \in log'.downloads
                 /\ temp \notin log'.uploads =>
                        (temp \in log'.deletes \/ target' = target)
                 /\ (temp \in log'.uploads /\ asset.name \in DOMAIN target_info) =>
                        temp \in log'.deletes
                 /\ (temp \in log'.uploads /\ tag \notin log'.releaseErrors) =>
                        /\ Cardinality(named) = 1
                        /\ \A i \in named : target'[tag].assets[i].size = asset.size
           ]_vars

\* A download failed for an asset the target holds, and the target still
\* holds it.
C20_Witness ==
    \E s \in log.downloads \ (log.uploads \cup log.deletes) :
        /\ s[1] \in log.found
        /\ \E i \in 1..Len(target[s[1]].assets) : target[s[1]].assets[i].name = s[2]

====
